---- MODULE Spec2Model ----
(***************************************************************************)
(* Foodgram backend: the relational tables of recipes/models.py and        *)
(* users/models.py and the request handlers of api/views.py and            *)
(* api/serializers.py (the deployed application), together with the        *)
(* earlier generation kept under backend/foodgram/ (api/views.py,          *)
(* meals/models.py).  Tables are bags of rows: a table holds a row more    *)
(* than once unless a UniqueConstraint of the model forbids it.            *)
(***************************************************************************)
EXTENDS Integers, Sequences, FiniteSets, Bags, TLC

(***************************************************************************)
(* Bounds of the model.                                                    *)
(***************************************************************************)
\* Longest `ingredients` / `tags` list of a recipe request.
MaxItems == 2
\* Requests that can be in flight at the same time.
NumClients == 2
\* Largest amount in the RecipeIngredient tables the shopping lists are
\* computed from.
MaxAmount == 2

(***************************************************************************)
(* Program constants (utils/constants.py).                                 *)
(***************************************************************************)
MIN_AMOUNT == 1
MAX_AMOUNT == 9999
MIN_COOK_TIME == 1
MAX_COOK_TIME == 1440

(***************************************************************************)
(* Rows present before any request: the fixture of api/tests.py.           *)
(* A name is the collation rank of the string ("Flour" < "Sugar"), so that *)
(* ORDER BY ingredient__name is an order on numbers; ids are assigned in   *)
(* insertion order, which is not the alphabetical one.                     *)
(***************************************************************************)
User == {1, 2}
Anonymous == 0

Ingredient ==
    { [id |-> 1, name |-> 2, measurement_unit |-> "g"],
      [id |-> 2, name |-> 1, measurement_unit |-> "g"] }

Tag == { [id |-> 1, slug |-> "breakfast"], [id |-> 2, slug |-> "dessert"] }

(***************************************************************************)
(* JSON values of a request body.  DictField() has no child validator, so  *)
(* `id` and `amount` of an ingredient item reach validate_ingredients as   *)
(* the client sent them: the number 1 and the string "1" are different     *)
(* Python values.  [t |-> "str", v |-> n] is the decimal string of n.      *)
(***************************************************************************)
IntVal(n) == [t |-> "int", v |-> n]
StrVal(n) == [t |-> "str", v |-> n]
\* A string that is not a number, such as "abc".
Text == [t |-> "text", v |-> 0]
\* What item.get(key) returns for an item without the key.
None == [t |-> "none", v |-> 0]

\* Python truthiness of a JSON number, a non-empty string or None (`not x`).
Falsy(x) == (x.t = "int" /\ x.v = 0) \/ x.t = "none"

\* int(x), and the cast Django applies to a primary-key lookup value, return
\* a number for a number or a numeric string and raise ValueError otherwise.
IsNumber(x) == x.t \in {"int", "str"}
PyInt(x) == x.v

RawIngredientIds == { IntVal(1), IntVal(2), StrVal(1), IntVal(3) }
RawAmounts == { IntVal(-1), IntVal(0), IntVal(1) }
RawTagIds == { IntVal(1), IntVal(2), IntVal(3) }

RawItems == [id : RawIngredientIds, amount : RawAmounts]

\* Every shape of an ingredient item: keys missing, values that are not
\* numbers, amounts around both configured bounds.
AnyIngredientIds == { IntVal(1), IntVal(2), Text, None }
AnyAmounts ==
    { IntVal(-1), IntVal(0), IntVal(MIN_AMOUNT), IntVal(MAX_AMOUNT),
      IntVal(MAX_AMOUNT + 1), StrVal(2), Text, None }
AnyItems == [id : AnyIngredientIds, amount : AnyAmounts]

\* Recipe names ("Pancakes", "Updated Pancakes") and cooking times around
\* the configured bounds.  The times stay below the range of a
\* PositiveSmallIntegerField, which depends on the database backend.
RecipeNames == {1, 2}
CookingTimes == { MIN_COOK_TIME - 1, MIN_COOK_TIME, 30, MAX_COOK_TIME,
                  MAX_COOK_TIME + 1 }

SeqsUpTo(S, n) == UNION { [1..k -> S] : k \in 0..n }

VARIABLES
    Recipe,            \* set of rows [id, author, name, cooking_time]
    RecipeIngredient,  \* bag of rows [recipe, ingredient, amount]
    RecipeTags,        \* bag of rows [recipe, tag]
    Favorite,          \* bag of rows [user, recipe]
    ShoppingCart,      \* bag of rows [user, recipe]
    Subscription,      \* bag of rows [user, author]
    next_recipe_id,    \* next value of Recipe's auto-increment primary key
    pending,           \* per client: the request between its check and its write
    IngredientRows,    \* bag of rows [name, measurement_unit] of Ingredient
    request,           \* the request being answered
    response           \* the response sent to it

tables == <<Recipe, RecipeIngredient, RecipeTags, Favorite, ShoppingCart,
            Subscription>>
vars == <<Recipe, RecipeIngredient, RecipeTags, Favorite, ShoppingCart,
          Subscription, next_recipe_id, pending, IngredientRows, request,
          response>>

(***************************************************************************)
(* Bags of rows.                                                           *)
(***************************************************************************)
Rows(table) == BagToSet(table)
Insert(table, row) == table (+) SetToBag({row})
Delete(table, gone) ==
    [row \in { x \in Rows(table) : x \notin gone } |-> table[row]]

RECURSIVE SumOver(_, _)
SumOver(table, rows) ==
    IF rows = {} THEN 0
    ELSE LET row == CHOOSE x \in rows : TRUE
         IN  row.amount * CopiesIn(row, table)
               + SumOver(table, rows \ {row})

RecipeIds == { r.id : r \in Recipe }

(***************************************************************************)
(* Constraints the database enforces (Meta.constraints, ForeignKey).       *)
(***************************************************************************)
\* recipes/models.py RecipeIngredient.Meta: UniqueConstraint(ingredient, recipe)
unique_recipe_ingredient(table) ==
    \A x \in Rows(table) :
        /\ table[x] = 1
        /\ \A y \in Rows(table) :
               (x.recipe = y.recipe /\ x.ingredient = y.ingredient) => x = y

\* recipes/models.py RecipeTags.Meta: UniqueConstraint(recipe, tag)
unique_recipe_tag(table) == \A x \in Rows(table) : table[x] = 1

\* FavoriteShoppingCartBaseModel.Meta: UniqueConstraint(user, recipe)
unique_user_recipe(table) == \A x \in Rows(table) : table[x] = 1

\* users/models.py Subscription.Meta: UniqueConstraint(user, author)
unique_follow(table) == \A x \in Rows(table) : table[x] = 1

\* RecipeIngredient.ingredient = ForeignKey(Ingredient)
ingredient_foreign_key(table) ==
    \A x \in Rows(table) : \E row \in Ingredient : row.id = x.ingredient

(***************************************************************************)
(* Requests and responses.                                                 *)
(***************************************************************************)
NoField == [present |-> FALSE, value |-> <<>>]
Field(v) == [present |-> TRUE, value |-> v]

\* Lists of at most n items.
IngredientsInputs(n) ==
    {NoField} \cup { Field(v) : v \in SeqsUpTo(RawItems, n) }
TagsInputs(n) ==
    {NoField} \cup { Field(v) : v \in SeqsUpTo(RawTagIds, n) }

\* `name` and `cooking_time` of a request body.
NoScalar == [present |-> FALSE, value |-> 0]
Scalar(v) == [present |-> TRUE, value |-> v]

Data(ingredients, tags, name, cooking_time) ==
    [ingredients |-> ingredients, tags |-> tags, name |-> name,
     cooking_time |-> cooking_time]

\* Bodies that vary the ingredients and the tags of a recipe named
\* "Updated Pancakes" that takes 30 minutes.
RecipeData(n) ==
    { Data(i, t, Scalar(2), Scalar(30)) :
          i \in IngredientsInputs(n), t \in TagsInputs(n) }
NoData == Data(NoField, NoField, NoScalar, NoScalar)

\* request.query_params: a parameter, given or not; `tags` may be given
\* several times and is read with getlist.
NoParam == [present |-> FALSE, value |-> ""]
Param(v) == [present |-> TRUE, value |-> v]
NoParams ==
    [format |-> NoParam, author |-> NoParam, tags |-> <<>>,
     is_favorited |-> NoParam, is_in_shopping_cart |-> NoParam]

\* request.query_params.get('format', default)
query_params_get(req, default) ==
    IF req.query_params.format.present THEN req.query_params.format.value
    ELSE default

Request(op, user, target, data) ==
    [op |-> op, user |-> user, target |-> target, data |-> data,
     query_params |-> NoParams]
NoRequest == Request("none", Anonymous, 0, NoData)

\* A request between its check and its write.
Clients == 1..NumClients
Idle == [op |-> "none", user |-> Anonymous, target |-> 0]

NoErrors ==
    [ingredients |-> "", tags |-> "", name |-> "", cooking_time |-> "",
     detail |-> ""]
Detail(msg) == [NoErrors EXCEPT !.detail = msg]

Response(status, errors, body) ==
    [status |-> status, errors |-> errors, body |-> body,
     content_type |-> "application/json", filename |-> ""]

\* HttpResponse(content, content_type=...) with
\* Content-Disposition: attachment; filename="..."
HttpResponse(content, content_type, filename) ==
    [Response(200, NoErrors, content) EXCEPT !.content_type = content_type,
                                             !.filename = filename]
NoResponse == Response(0, NoErrors, <<>>)

(***************************************************************************)
(* api/serializers.py RecipeCreateUpdateSerializer: validation.            *)
(***************************************************************************)
Valid(v) == [error |-> "", raised |-> "", value |-> v]
\* raise serializers.ValidationError
Invalid(code) == [error |-> code, raised |-> "", value |-> <<>>]
\* An exception that is not a ValidationError leaves is_valid() uncaught.
Raised(exception) == [error |-> "", raised |-> exception, value |-> <<>>]

\* Ingredient.objects.get(id=ingredient_id) finds a row
IngredientExists_unchecked(id) == TRUE
IngredientExists(id) == \E row \in Ingredient : row.id = id
\* Tag.objects.all().get(pk=...) finds a row
TagExists(id) == \E row \in Tag : row.id = id

RECURSIVE validate_ingredients_loop(_, _, _, _)
validate_ingredients_loop(value, i, ingredient_ids, validated_ingredients) ==
    IF i > Len(value) THEN Valid(validated_ingredients)
    ELSE LET ingredient_id == value[i].id
             amount == value[i].amount
         IN  IF Falsy(ingredient_id) \/ Falsy(amount)
                 THEN Invalid("format")
             ELSE IF ~IsNumber(ingredient_id)
                 THEN Raised("ValueError")
             ELSE IF ~IngredientExists(PyInt(ingredient_id))
                 THEN Invalid("does_not_exist")
             ELSE IF ingredient_id \in ingredient_ids
                 THEN Invalid("twice")
             ELSE IF ~IsNumber(amount)
                 THEN Raised("ValueError")
             ELSE IF PyInt(amount) < MIN_AMOUNT
                 THEN Invalid("min_amount")
             ELSE validate_ingredients_loop(
                      value, i + 1, ingredient_ids \cup {ingredient_id},
                      Append(validated_ingredients,
                             [ingredient |-> PyInt(ingredient_id),
                              amount |-> amount]))

validate_ingredients(value) ==
    IF value = <<>> THEN Invalid("empty")
    ELSE validate_ingredients_loop(value, 1, {}, <<>>)

\* PrimaryKeyRelatedField(many=True, queryset=Tag.objects.all()): each id is
\* looked up and replaced by its Tag row.
tags_to_internal_value(data) ==
    IF \E i \in 1..Len(data) : ~TagExists(PyInt(data[i]))
        THEN Invalid("does_not_exist")
    ELSE Valid([i \in 1..Len(data) |-> PyInt(data[i])])

validate_tags_allow_empty(value) ==
    IF Len(value) # Cardinality({ value[i] : i \in 1..Len(value) })
        THEN Invalid("unique")
    ELSE Valid(value)

validate_tags(value) ==
    IF value = <<>> THEN Invalid("empty")
    ELSE IF Len(value) # Cardinality({ value[i] : i \in 1..Len(value) })
        THEN Invalid("unique")
    ELSE Valid(value)

\* Serializer.run_validation for one field: a missing field is skipped by
\* a partial update and is an error otherwise.
ingredients_field(data, partial) ==
    IF ~data.ingredients.present
        THEN IF partial THEN Valid(<<>>) ELSE Invalid("required")
    ELSE validate_ingredients(data.ingredients.value)

tags_field(data, partial) ==
    IF ~data.tags.present
        THEN IF partial THEN Valid(<<>>) ELSE Invalid("required")
    ELSE LET internal == tags_to_internal_value(data.tags.value)
         IN  IF internal.error # "" THEN internal
             ELSE validate_tags(internal.value)

\* CharField of Recipe.name: required unless partial.
name_field(data, partial) ==
    IF ~data.name.present
        THEN IF partial THEN Valid(0) ELSE Invalid("required")
    ELSE Valid(data.name.value)

\* IntegerField of Recipe.cooking_time with the validators of the model
\* field: MinValueValidator(MIN_COOK_TIME) and nothing for MAX_COOK_TIME.
cooking_time_field(data, partial) ==
    IF ~data.cooking_time.present
        THEN IF partial THEN Valid(0) ELSE Invalid("required")
    ELSE IF data.cooking_time.value < MIN_COOK_TIME THEN Invalid("min_value")
    ELSE Valid(data.cooking_time.value)

\* is_valid(): the errors of all fields and the validated data, or the
\* exception raised on the way.
run_validation(data, partial) ==
    LET ingredients == ingredients_field(data, partial)
        tags == tags_field(data, partial)
        name == name_field(data, partial)
        cooking_time == cooking_time_field(data, partial)
    IN  [errors |-> [ingredients |-> ingredients.error,
                     tags |-> tags.error,
                     name |-> name.error,
                     cooking_time |-> cooking_time.error,
                     detail |-> ""],
         raised |-> ingredients.raised,
         has_ingredients |-> data.ingredients.present,
         ingredients |-> ingredients.value,
         has_tags |-> data.tags.present,
         tags |-> tags.value,
         has_name |-> data.name.present,
         name |-> name.value,
         has_cooking_time |-> data.cooking_time.present,
         cooking_time |-> cooking_time.value]

(***************************************************************************)
(* api/serializers.py RecipeCreateUpdateSerializer: writes.  No statement  *)
(* of create() or update() runs inside transaction.atomic(), so every      *)
(* statement is committed when it returns and an exception raised by a     *)
(* later statement leaves the earlier ones in place.                       *)
(***************************************************************************)
RECURSIVE InsertAll(_, _)
InsertAll(table, rows) ==
    IF rows = <<>> THEN table
    ELSE InsertAll(Insert(table, Head(rows)), Tail(rows))

RecipeIngredientRows(recipe, ingredients) ==
    [i \in 1..Len(ingredients) |->
        [recipe |-> recipe,
         ingredient |-> ingredients[i].ingredient,
         amount |-> PyInt(ingredients[i].amount)]]

\* bulk_create is one INSERT statement: the unique constraint rejects all of
\* its rows or none.
create_ingredients(table, recipe, ingredients) ==
    LET created == InsertAll(table, RecipeIngredientRows(recipe, ingredients))
    IN  IF unique_recipe_ingredient(created) /\ ingredient_foreign_key(created)
            THEN [ok |-> TRUE, table |-> created]
        ELSE [ok |-> FALSE, table |-> table]

\* recipe.tags.add(*tags): rows of new tags are added, no row is removed.
tags_add(table, recipe, tags) ==
    LET old == { x \in Rows(table) : x.recipe = recipe }
        new == { [recipe |-> recipe, tag |-> tags[i]] : i \in 1..Len(tags) }
    IN  table (+) SetToBag(new \ old)

\* recipe.tags.set(tags): rows of tags no longer wanted are removed, rows of
\* new tags are added.
tags_set(table, recipe, tags) ==
    LET old == { x \in Rows(table) : x.recipe = recipe }
        new == { [recipe |-> recipe, tag |-> tags[i]] : i \in 1..Len(tags) }
    IN  Delete(table, old \ new) (+) SetToBag(new \ old)

\* A foreign key that keeps the rows of a deleted recipe.
Cascade_keep(table, recipe) == table

\* on_delete=models.CASCADE
Cascade(table, recipe) ==
    Delete(table, { x \in Rows(table) : x.recipe = recipe })

\* rest_framework.permissions.SAFE_METHODS
SAFE_METHODS == {"GET", "HEAD", "OPTIONS"}

\* A viewset without permission checks.
AllowAny(user, method) == TRUE

\* RecipeViewSet.permission_classes = [IsAuthenticatedOrReadOnly], which the
\* favorite and shopping_cart actions inherit.
IsAuthenticatedOrReadOnly(user, method) ==
    method \in SAFE_METHODS \/ user # Anonymous

\* permission_classes=[IsAuthenticated] of subscribe and
\* download_shopping_cart.
IsAuthenticated(user) == user # Anonymous

\* No view writes the Ingredient table (IngredientViewSet is read-only).
Answer(req, resp) ==
    request' = req /\ response' = resp /\ UNCHANGED IngredientRows

\* POST /api/recipes/
CreateRecipe(req) ==
    /\ req.op = "create"
    /\ UNCHANGED <<Favorite, ShoppingCart, Subscription, pending>>
    /\ IF ~IsAuthenticatedOrReadOnly(req.user, "POST")
           THEN /\ Answer(req, Response(401, Detail("not_authenticated"), <<>>))
                /\ UNCHANGED <<Recipe, RecipeIngredient, RecipeTags,
                               next_recipe_id>>
       ELSE LET validated_data == run_validation(req.data, FALSE)
                recipe == next_recipe_id
                made == create_ingredients(RecipeIngredient, recipe,
                                           validated_data.ingredients)
            IN  IF validated_data.raised # ""
                    THEN /\ Answer(req, Response(500,
                                     Detail(validated_data.raised), <<>>))
                         /\ UNCHANGED <<Recipe, RecipeIngredient, RecipeTags,
                                        next_recipe_id>>
                ELSE IF validated_data.errors # NoErrors
                    THEN /\ Answer(req, Response(400, validated_data.errors,
                                                 <<>>))
                         /\ UNCHANGED <<Recipe, RecipeIngredient, RecipeTags,
                                        next_recipe_id>>
                ELSE /\ Recipe' = Recipe \cup
                                     {[id |-> recipe, author |-> req.user,
                                       name |-> validated_data.name,
                                       cooking_time |->
                                           validated_data.cooking_time]}
                     /\ next_recipe_id' = next_recipe_id + 1
                     /\ RecipeIngredient' = made.table
                     /\ IF made.ok
                            THEN /\ RecipeTags' = tags_set(RecipeTags, recipe,
                                                           validated_data.tags)
                                 /\ Answer(req, Response(201, NoErrors, <<>>))
                        ELSE /\ UNCHANGED RecipeTags
                             /\ Answer(req, Response(500,
                                     Detail("IntegrityError"), <<>>))

\* The validated fields set on the instance without the author.
setattrs_keep_author(r, validated_data, user) ==
    [id |-> r.id,
     author |-> r.author,
     name |-> IF validated_data.has_name THEN validated_data.name
              ELSE r.name,
     cooking_time |-> IF validated_data.has_cooking_time
                          THEN validated_data.cooking_time
                      ELSE r.cooking_time]

\* update(): setattr for every validated key but ingredients and tags, with
\* the author perform_update passes to save().
setattrs(r, validated_data, user) ==
    [id |-> r.id,
     author |-> user,
     name |-> IF validated_data.has_name THEN validated_data.name
              ELSE r.name,
     cooking_time |-> IF validated_data.has_cooking_time
                          THEN validated_data.cooking_time
                      ELSE r.cooking_time]

\* PUT and PATCH /api/recipes/{id}/
UpdateRecipe(req) ==
    /\ req.op \in {"update", "partial_update"}
    /\ UNCHANGED <<Favorite, ShoppingCart, Subscription, pending,
                   next_recipe_id>>
    /\ IF ~IsAuthenticatedOrReadOnly(req.user, IF req.op = "update"
                                                    THEN "PUT" ELSE "PATCH")
           THEN /\ Answer(req, Response(401, Detail("not_authenticated"), <<>>))
                /\ UNCHANGED <<Recipe, RecipeIngredient, RecipeTags>>
       ELSE IF req.target \notin RecipeIds
           THEN /\ Answer(req, Response(404, Detail("not_found"), <<>>))
                /\ UNCHANGED <<Recipe, RecipeIngredient, RecipeTags>>
       ELSE LET validated_data ==
                    run_validation(req.data, req.op = "partial_update")
                instance == req.target
                deleted == Cascade(RecipeIngredient, instance)
                made == create_ingredients(deleted, instance,
                                           validated_data.ingredients)
                saved == ~validated_data.has_ingredients \/ made.ok
            IN  IF validated_data.raised # ""
                    THEN /\ Answer(req, Response(500,
                                     Detail(validated_data.raised), <<>>))
                         /\ UNCHANGED <<Recipe, RecipeIngredient, RecipeTags>>
                ELSE IF validated_data.errors # NoErrors
                    THEN /\ Answer(req, Response(400, validated_data.errors,
                                                 <<>>))
                         /\ UNCHANGED <<Recipe, RecipeIngredient, RecipeTags>>
                ELSE /\ Recipe' = { IF r.id = instance
                                        THEN setattrs(r, validated_data,
                                                      req.user)
                                    ELSE r : r \in Recipe }
                     /\ RecipeIngredient' =
                            IF validated_data.has_ingredients THEN made.table
                            ELSE RecipeIngredient
                     /\ RecipeTags' =
                            IF saved /\ validated_data.has_tags
                                THEN tags_set(RecipeTags, instance,
                                              validated_data.tags)
                            ELSE RecipeTags
                     /\ Answer(req, IF saved
                                        THEN Response(200, NoErrors, <<>>)
                                    ELSE Response(500,
                                             Detail("IntegrityError"), <<>>))

\* DELETE /api/recipes/{id}/
DestroyRecipe(req) ==
    /\ req.op = "destroy"
    /\ UNCHANGED <<Subscription, pending, next_recipe_id>>
    /\ IF ~IsAuthenticatedOrReadOnly(req.user, "DELETE")
           THEN /\ Answer(req, Response(401, Detail("not_authenticated"), <<>>))
                /\ UNCHANGED <<Recipe, RecipeIngredient, RecipeTags, Favorite,
                               ShoppingCart>>
       ELSE IF req.target \notin RecipeIds
           THEN /\ Answer(req, Response(404, Detail("not_found"), <<>>))
                /\ UNCHANGED <<Recipe, RecipeIngredient, RecipeTags, Favorite,
                               ShoppingCart>>
       ELSE /\ Recipe' = { r \in Recipe : r.id # req.target }
            /\ RecipeIngredient' = Cascade(RecipeIngredient, req.target)
            /\ RecipeTags' = Cascade(RecipeTags, req.target)
            /\ Favorite' = Cascade(Favorite, req.target)
            /\ ShoppingCart' = Cascade(ShoppingCart, req.target)
            /\ Answer(req, Response(204, NoErrors, <<>>))

(***************************************************************************)
(* Database states requests are answered from.                             *)
(***************************************************************************)
Database(recipes, ingredients, tags, favorites, carts, follows) ==
    [Recipe |-> recipes, RecipeIngredient |-> SetToBag(ingredients),
     RecipeTags |-> SetToBag(tags), Favorite |-> SetToBag(favorites),
     ShoppingCart |-> SetToBag(carts), Subscription |-> SetToBag(follows)]

EmptyDatabase == Database({}, {}, {}, {}, {}, {})

\* One recipe by user 1 with one ingredient and one tag (RecipeAPITests.setUp),
\* in the favorites of user 2 and in the cart of user 1.
OneRecipe ==
    Database({[id |-> 1, author |-> 1, name |-> 1, cooking_time |-> 30]},
             {[recipe |-> 1, ingredient |-> 1, amount |-> 2]},
             {[recipe |-> 1, tag |-> 1]},
             {[user |-> 2, recipe |-> 1]},
             {[user |-> 1, recipe |-> 1]},
             {})

Load(db) ==
    /\ Recipe = db.Recipe
    /\ RecipeIngredient = db.RecipeIngredient
    /\ RecipeTags = db.RecipeTags
    /\ Favorite = db.Favorite
    /\ ShoppingCart = db.ShoppingCart
    /\ Subscription = db.Subscription
    /\ next_recipe_id = Cardinality(db.Recipe) + 1
    /\ pending = [c \in Clients |-> Idle]
    /\ IngredientRows =
           SetToBag({ [name |-> i.name,
                       measurement_unit |-> i.measurement_unit] :
                          i \in Ingredient })

(***************************************************************************)
(* SpecRecipe: one recipe request, any request of the bounded set, answered *)
(* from the empty database or from the one-recipe database.                *)
(***************************************************************************)
RecipeTargets == 1..2

RecipeRequests(op) ==
    IF op = "destroy"
        THEN { Request(op, u, t, NoData) :
                   u \in User \cup {Anonymous}, t \in RecipeTargets }
    ELSE { Request(op, u, t, d) :
               u \in User, t \in IF op = "create" THEN {0} ELSE RecipeTargets,
               d \in RecipeData(MaxItems) }
         \cup { Request(op, Anonymous, 1, NoData) }

InitRecipe ==
    /\ \E db \in {EmptyDatabase, OneRecipe} : Load(db)
    /\ request = NoRequest
    /\ response = NoResponse

NextRecipe ==
    \/ /\ request = NoRequest
       /\ \/ \E u \in User, d \in RecipeData(MaxItems) :
                 CreateRecipe(Request("create", u, 0, d))
          \/ CreateRecipe(Request("create", Anonymous, 1, NoData))
    \/ /\ request = NoRequest
       /\ \E op \in {"update", "partial_update"} :
              \/ \E u \in User, t \in RecipeTargets,
                    d \in RecipeData(MaxItems) :
                     UpdateRecipe(Request(op, u, t, d))
              \/ UpdateRecipe(Request(op, Anonymous, 1, NoData))
    \/ /\ request = NoRequest
       /\ \E req \in RecipeRequests("destroy") : DestroyRecipe(req)

SpecRecipe == InitRecipe /\ [][NextRecipe]_vars

(***************************************************************************)
(* api/views.py RecipeViewSet: favorite, shopping_cart.                     *)
(***************************************************************************)
Pair(user, recipe) == [user |-> user, recipe |-> recipe]

\* RecipeRelationSerializer.validate: a recipe already in the list is
\* refused.
RecipeRelationSerializer_validate(table, user, recipe) ==
    IF Pair(user, recipe) \in Rows(table) THEN "exists" ELSE ""

\* RecipeRelationSerializer.save: model.objects.create(user, recipe), under
\* the unique constraint of the model.
RecipeRelationSerializer_save(table, user, recipe) ==
    LET created == Insert(table, Pair(user, recipe))
    IN  IF unique_user_recipe(created)
            THEN [ok |-> TRUE, table |-> created]
        ELSE [ok |-> FALSE, table |-> table]

\* No filter at all.
filter_none(table, user, pk) == Rows(table)

\* A filter on the user alone.
filter_user(table, user, pk) == { x \in Rows(table) : x.user = user }

\* A filter on the recipe alone.
filter_recipe(table, user, pk) == { x \in Rows(table) : x.recipe = pk }

\* model.objects.filter(user=user, recipe_id=pk)
filter_user_recipe(table, user, pk) ==
    { x \in Rows(table) : x.user = user /\ x.recipe = pk }

\* _handle_relation_action(request, pk, model, relation_name): the new table
\* and the response.
handle_relation_action(table, method, user, pk) ==
    IF ~IsAuthenticatedOrReadOnly(user, method)
        THEN [table |-> table,
              response |-> Response(401, Detail("not_authenticated"), <<>>)]
    ELSE IF method = "POST"
        THEN IF pk \notin RecipeIds
                 THEN [table |-> table,
                       response |-> Response(404, Detail("not_found"), <<>>)]
             ELSE IF RecipeRelationSerializer_validate(table, user, pk) # ""
                 THEN [table |-> table,
                       response |-> Response(400, Detail("exists"), <<>>)]
             ELSE LET saved == RecipeRelationSerializer_save(table, user, pk)
                  IN  [table |-> saved.table,
                       response |->
                           IF saved.ok THEN Response(201, NoErrors, <<>>)
                           ELSE Response(500, Detail("IntegrityError"), <<>>)]
    ELSE LET matching == filter_user_recipe(table, user, pk)
         IN  IF matching = {}
                 THEN [table |-> table,
                       response |-> Response(400, Detail("absent"), <<>>)]
             ELSE [table |-> Delete(table, matching),
                   response |-> Response(204, NoErrors, <<>>)]

Method(req) ==
    IF req.op \in {"favorite_post", "shopping_cart_post", "subscribe_post"}
        THEN "POST"
    ELSE "DELETE"

\* POST and DELETE /api/recipes/{id}/favorite/
favorite(req) ==
    /\ req.op \in {"favorite_post", "favorite_delete"}
    /\ LET done == handle_relation_action(Favorite, Method(req), req.user,
                                          req.target)
       IN  Favorite' = done.table /\ Answer(req, done.response)
    /\ UNCHANGED <<Recipe, RecipeIngredient, RecipeTags, ShoppingCart,
                   Subscription, next_recipe_id, pending>>

\* POST and DELETE /api/recipes/{id}/shopping_cart/
shopping_cart(req) ==
    /\ req.op \in {"shopping_cart_post", "shopping_cart_delete"}
    /\ LET done == handle_relation_action(ShoppingCart, Method(req), req.user,
                                          req.target)
       IN  ShoppingCart' = done.table /\ Answer(req, done.response)
    /\ UNCHANGED <<Recipe, RecipeIngredient, RecipeTags, Favorite,
                   Subscription, next_recipe_id, pending>>

(***************************************************************************)
(* Shopping list: api/views.py download_shopping_cart and api/utils.py     *)
(* generate_shopping_list.                                                  *)
(***************************************************************************)
IngredientRow(id) == CHOOSE row \in Ingredient : row.id = id

GroupKey(x) ==
    [name |-> IngredientRow(x.ingredient).name,
     unit |-> IngredientRow(x.ingredient).measurement_unit]

\* The join without its filter on the user's cart.
JoinCopies_any_recipe(x, user) == RecipeIngredient[x]

\* filter(recipe__shopping_carts__user=user): the join of RecipeIngredient
\* with ShoppingCart yields a RecipeIngredient row once per matching cart row.
JoinCopies(x, user) ==
    RecipeIngredient[x] * CopiesIn(Pair(user, x.recipe), ShoppingCart)

RECURSIVE SumAmount(_, _)
SumAmount(rows, user) ==
    IF rows = {} THEN 0
    ELSE LET x == CHOOSE y \in rows : TRUE
         IN  x.amount * JoinCopies(x, user) + SumAmount(rows \ {x}, user)

\* .values(name, unit).annotate(total_amount=Sum('amount')): one entry per
\* group of the joined rows.
annotate_total_amount(user) ==
    LET joined == { x \in Rows(RecipeIngredient) : JoinCopies(x, user) > 0 }
    IN  { [name |-> k.name, unit |-> k.unit,
           total_amount |-> SumAmount({ x \in joined : GroupKey(x) = k },
                                      user)] :
            k \in { GroupKey(x) : x \in joined } }

\* The orders in which the database may return the entries.
Orders(entries) ==
    { s \in [1..Cardinality(entries) -> entries] :
        \A i, j \in DOMAIN s : i # j => s[i] # s[j] }

\* .order_by('ingredient__name')
order_by_name(entries) ==
    { s \in Orders(entries) :
        \A i, j \in DOMAIN s : i < j => s[i].name <= s[j].name }

\* GET /api/recipes/download_shopping_cart/
download_shopping_cart(req) ==
    /\ req.op = "download_shopping_cart"
    /\ UNCHANGED <<Recipe, RecipeIngredient, RecipeTags, Favorite,
                   ShoppingCart, Subscription, next_recipe_id, pending>>
    /\ IF ~IsAuthenticated(req.user)
           THEN Answer(req, Response(401, Detail("not_authenticated"), <<>>))
       ELSE \E ingredients \in order_by_name(annotate_total_amount(req.user)) :
                Answer(req, HttpResponse(ingredients, "text/plain",
                                         "shopping_list.txt"))

\* generate_shopping_list(user), called for an authenticated user: the
\* query has no order_by, the entries come in the order the database picks.
generate_shopping_list(req) ==
    /\ req.op = "generate_shopping_list"
    /\ req.user \in User
    /\ UNCHANGED <<Recipe, RecipeIngredient, RecipeTags, Favorite,
                   ShoppingCart, Subscription, next_recipe_id, pending>>
    /\ \E ingredients \in Orders(annotate_total_amount(req.user)) :
           Answer(req, Response(200, NoErrors, ingredients))

(***************************************************************************)
(* api/views.py UserViewSet.subscribe, api/serializers.py                   *)
(* SubscriptionSerializer, users/admin.py SubscriptionAdmin.                *)
(***************************************************************************)
\* The pair the other way round.
Follow_reversed(user, author) == [user |-> author, author |-> user]

\* data = {'user': request.user.id, 'author': author.id}
Follow(user, author) == [user |-> user, author |-> author]

\* SubscriptionSerializer.validate
SubscriptionSerializer_validate(data) ==
    IF data.user = data.author THEN "self"
    ELSE IF data \in Rows(Subscription) THEN "exists"
    ELSE ""

\* Subscription.objects.create under Subscription.Meta.constraints
Subscription_create(table, row) ==
    LET created == Insert(table, row)
    IN  IF unique_follow(created) THEN [ok |-> TRUE, table |-> created]
        ELSE [ok |-> FALSE, table |-> table]

\* POST and DELETE /api/users/{id}/subscribe/
subscribe(req) ==
    /\ req.op \in {"subscribe_post", "subscribe_delete"}
    /\ UNCHANGED <<Recipe, RecipeIngredient, RecipeTags, Favorite,
                   ShoppingCart, next_recipe_id, pending>>
    /\ LET data == Follow(req.user, req.target)
           saved == Subscription_create(Subscription, data)
       IN  IF ~IsAuthenticated(req.user)
               THEN /\ Answer(req, Response(401, Detail("not_authenticated"),
                                            <<>>))
                    /\ UNCHANGED Subscription
           ELSE IF req.target \notin User
               THEN /\ Answer(req, Response(404, Detail("not_found"), <<>>))
                    /\ UNCHANGED Subscription
           ELSE IF Method(req) = "POST"
               THEN IF SubscriptionSerializer_validate(data) # ""
                        THEN /\ Answer(req, Response(400,
                                    Detail(SubscriptionSerializer_validate(data)),
                                    <<>>))
                             /\ UNCHANGED Subscription
                    ELSE /\ Subscription' = saved.table
                         /\ Answer(req, IF saved.ok
                                            THEN Response(201, NoErrors, <<>>)
                                        ELSE Response(500,
                                                 Detail("IntegrityError"),
                                                 <<>>))
           ELSE IF data \notin Rows(Subscription)
               THEN /\ Answer(req, Response(404, Detail("not_found"), <<>>))
                    /\ UNCHANGED Subscription
           ELSE /\ Subscription' = Delete(Subscription, {data})
                /\ Answer(req, Response(204, NoErrors, <<>>))

\* The "add subscription" form of the admin site: the model form checks the
\* constraints of Subscription.Meta and nothing else.
admin_add_subscription(req) ==
    /\ req.op = "admin_add_subscription"
    /\ req.user \in User /\ req.target \in User
    /\ UNCHANGED <<Recipe, RecipeIngredient, RecipeTags, Favorite,
                   ShoppingCart, next_recipe_id, pending>>
    /\ LET saved == Subscription_create(Subscription,
                                        Follow(req.user, req.target))
       IN  /\ Subscription' = saved.table
           /\ Answer(req, IF saved.ok THEN Response(302, NoErrors, <<>>)
                          ELSE Response(200, Detail("exists"), <<>>))

(***************************************************************************)
(* foodgram/api/views.py RecipeViewSet._change_relation over the models of  *)
(* foodgram/meals/models.py. The handler reads (get_object, exists) and     *)
(* then writes (create, delete) in two queries with no transaction or lock  *)
(* around them, so requests of other clients run between the two.           *)
(***************************************************************************)
RelationOps ==
    {"favorite_post", "favorite_delete", "shopping_cart_post",
     "shopping_cart_delete"}

OnFavorite(op) == op \in {"favorite_post", "favorite_delete"}

\* meals/models.py Favorite.Meta declares no constraint.
legacy_favorite_constraints(table) == TRUE

\* meals/models.py ShoppingCart.Meta: UniqueConstraint(user, recipe)
unique_shopping_cart(table) == \A x \in Rows(table) : table[x] = 1

\* First half of _change_relation: get_object() and relation.exists().
legacy_change_relation_check(c, req) ==
    /\ req.op \in RelationOps
    /\ pending[c] = Idle
    /\ UNCHANGED <<Recipe, RecipeIngredient, RecipeTags, Favorite,
                   ShoppingCart, Subscription, next_recipe_id>>
    /\ LET table == IF OnFavorite(req.op) THEN Favorite ELSE ShoppingCart
           exists == Pair(req.user, req.target) \in Rows(table)
       IN  IF req.user = Anonymous
               THEN /\ Answer(req, Response(401, Detail("not_authenticated"),
                                            <<>>))
                    /\ UNCHANGED pending
           ELSE IF req.target \notin RecipeIds
               THEN /\ Answer(req, Response(404, Detail("not_found"), <<>>))
                    /\ UNCHANGED pending
           ELSE IF Method(req) = "POST" /\ exists
               THEN /\ Answer(req, Response(400, Detail("exists"), <<>>))
                    /\ UNCHANGED pending
           ELSE IF Method(req) = "DELETE" /\ ~exists
               THEN /\ Answer(req, Response(400, Detail("absent"), <<>>))
                    /\ UNCHANGED pending
           ELSE /\ pending' = [pending EXCEPT ![c] =
                                   [op |-> req.op, user |-> req.user,
                                    target |-> req.target]]
                /\ UNCHANGED <<request, response, IngredientRows>>

\* Second half of _change_relation: model.objects.create(user, recipe) or
\* relation.delete().
legacy_change_relation_write(c) ==
    /\ pending[c] # Idle
    /\ pending' = [pending EXCEPT ![c] = Idle]
    /\ UNCHANGED <<Recipe, RecipeIngredient, RecipeTags, Subscription,
                   next_recipe_id>>
    /\ LET req == Request(pending[c].op, pending[c].user, pending[c].target,
                          NoData)
           row == Pair(req.user, req.target)
           table == IF OnFavorite(req.op) THEN Favorite ELSE ShoppingCart
           created == Insert(table, row)
           allowed == IF OnFavorite(req.op)
                          THEN legacy_favorite_constraints(created)
                      ELSE unique_shopping_cart(created)
           written == IF Method(req) = "DELETE" THEN Delete(table, {row})
                      ELSE IF allowed THEN created
                      ELSE table
       IN  /\ Favorite' = IF OnFavorite(req.op) THEN written ELSE Favorite
           /\ ShoppingCart' = IF OnFavorite(req.op) THEN ShoppingCart
                              ELSE written
           /\ Answer(req,
                  IF Method(req) = "DELETE" THEN Response(204, NoErrors, <<>>)
                  ELSE IF allowed THEN Response(201, NoErrors, <<>>)
                  ELSE Response(500, Detail("IntegrityError"), <<>>))

(***************************************************************************)
(* Specifications.                                                          *)
(***************************************************************************)
Targets == 1..3

RequestsOf(ops) ==
    { Request(op, u, t, NoData) :
          op \in ops, u \in User \cup {Anonymous}, t \in Targets }

\* Recipe 1 by user 1 (ingredient 1, amount 4) and recipe 2 by user 2
\* (ingredient 1, amount 1; ingredient 2, amount 2), nothing in any list.
TwoRecipes ==
    Database({[id |-> 1, author |-> 1, name |-> 1, cooking_time |-> 30],
              [id |-> 2, author |-> 2, name |-> 2, cooking_time |-> 30]},
             {[recipe |-> 1, ingredient |-> 1, amount |-> 4],
              [recipe |-> 2, ingredient |-> 1, amount |-> 1],
              [recipe |-> 2, ingredient |-> 2, amount |-> 2]},
             {[recipe |-> 1, tag |-> 1], [recipe |-> 2, tag |-> 2]},
             {}, {}, {})

\* Favorites, carts, shopping lists and deletion over two recipes.
Init ==
    /\ Load(TwoRecipes)
    /\ request = NoRequest
    /\ response = NoResponse

Next ==
    \/ \E req \in RequestsOf({"favorite_post", "favorite_delete"}) :
           favorite(req)
    \/ \E req \in RequestsOf({"shopping_cart_post", "shopping_cart_delete"}) :
           shopping_cart(req)
    \/ \E req \in RequestsOf({"destroy"}) : DestroyRecipe(req)
    \/ \E req \in RequestsOf({"download_shopping_cart"}) :
           download_shopping_cart(req)

Spec == Init /\ [][Next]_vars

\* Shopping lists over every content of RecipeIngredient the constraints
\* allow for two recipes.
Amounts == 1..MaxAmount

RecipeIngredientTables ==
    { SetToBag(rows) :
        rows \in { r \in SUBSET [recipe : 1..2, ingredient : 1..2,
                                 amount : Amounts] :
                     unique_recipe_ingredient(SetToBag(r)) } }

InitList ==
    /\ \E table \in RecipeIngredientTables :
           Load([TwoRecipes EXCEPT !.RecipeIngredient = table])
    /\ request = NoRequest
    /\ response = NoResponse

NextList ==
    \/ \E req \in RequestsOf({"shopping_cart_post", "shopping_cart_delete"}) :
           shopping_cart(req)
    \/ \E req \in RequestsOf({"download_shopping_cart"}) :
           download_shopping_cart(req)
    \/ \E req \in RequestsOf({"generate_shopping_list"}) :
           generate_shopping_list(req)

SpecList == InitList /\ [][NextList]_vars

\* Subscriptions through the API and through the admin site.
InitSub ==
    /\ Load(EmptyDatabase)
    /\ request = NoRequest
    /\ response = NoResponse

NextSub ==
    \/ \E req \in RequestsOf({"subscribe_post", "subscribe_delete"}) :
           subscribe(req)
    \/ \E req \in RequestsOf({"admin_add_subscription"}) :
           admin_add_subscription(req)

SpecSub == InitSub /\ [][NextSub]_vars

\* Concurrent clients of the handlers of foodgram/api/views.py.
InitLegacy ==
    /\ Load(Database({[id |-> 1, author |-> 1, name |-> 1,
                       cooking_time |-> 30]},
                     {[recipe |-> 1, ingredient |-> 1, amount |-> 2]},
                     {[recipe |-> 1, tag |-> 1]}, {}, {}, {}))
    /\ request = NoRequest
    /\ response = NoResponse

NextLegacy ==
    \E c \in Clients :
        \/ \E req \in RequestsOf(RelationOps) :
               legacy_change_relation_check(c, req)
        \/ legacy_change_relation_write(c)

SpecLegacy == InitLegacy /\ [][NextLegacy]_vars

\* One recipe request whose ingredient items take every shape, or whose
\* name and cooking time vary, answered from the empty database or from the
\* one-recipe database.
OneItem == <<[id |-> IntVal(1), amount |-> IntVal(1)]>>
OneTag == <<IntVal(1)>>

FieldData ==
    { Data(Field(v), Field(OneTag), Scalar(2), Scalar(30)) :
          v \in SeqsUpTo(AnyItems, MaxItems) }
    \cup { Data(Field(OneItem), Field(OneTag), n, c) :
               n \in {NoScalar} \cup { Scalar(v) : v \in RecipeNames },
               c \in {NoScalar} \cup { Scalar(v) : v \in CookingTimes } }

FieldRequests(op) ==
    { Request(op, u, t, d) :
          u \in User, t \in IF op = "create" THEN {0} ELSE RecipeTargets,
          d \in FieldData }

InitFields ==
    /\ \E db \in {EmptyDatabase, OneRecipe} : Load(db)
    /\ request = NoRequest
    /\ response = NoResponse

NextFields ==
    \/ /\ request = NoRequest
       /\ \E req \in FieldRequests("create") : CreateRecipe(req)
    \/ /\ request = NoRequest
       /\ \E op \in {"update", "partial_update"} :
              \E req \in FieldRequests(op) : UpdateRecipe(req)

SpecFields == InitFields /\ [][NextFields]_vars

\* One update of one of two recipes.
InitUpdate ==
    /\ Load(TwoRecipes)
    /\ request = NoRequest
    /\ response = NoResponse

NextUpdate ==
    /\ request = NoRequest
    /\ \E op \in {"update", "partial_update"}, u \in User,
          t \in RecipeTargets, d \in RecipeData(MaxItems) :
           UpdateRecipe(Request(op, u, t, d))

SpecUpdate == InitUpdate /\ [][NextUpdate]_vars

(***************************************************************************)
(* Claims about recipe requests (SpecRecipe).                              *)
(***************************************************************************)
Accepted(resp) == resp.status \in {200, 201, 204}

\* The request passes authentication and, for an update, names a recipe.
Addressed(req) ==
    /\ req.user \in User
    /\ \/ req.op = "create"
       \/ req.op \in {"update", "partial_update"} /\ req.target \in RecipeIds

NoTags(req) == ~req.data.tags.present \/ req.data.tags.value = <<>>
NoIngredients(req) ==
    ~req.data.ingredients.present \/ req.data.ingredients.value = <<>>

RecipeTablesUnchanged ==
    /\ Recipe' = Recipe
    /\ RecipeIngredient' = RecipeIngredient
    /\ RecipeTags' = RecipeTags

\* C3: a recipe create or update request that fails leaves the Recipe,
\* RecipeIngredient and RecipeTags tables exactly as they were.
C3_NoPartialWrites ==
    [][ (request'.op \in {"create", "update", "partial_update"}
            /\ ~Accepted(response'))
        => RecipeTablesUnchanged ]_vars

SameTagTwice(req) ==
    LET v == req.data.tags.value
    IN  \E i, j \in 1..Len(v) : i < j /\ v[i].v = v[j].v

SameIngredientTwice(req) ==
    LET v == req.data.ingredients.value
    IN  \E i, j \in 1..Len(v) : i < j /\ v[i].id.v = v[j].id.v

RECURSIVE Copies(_, _)
Copies(table, rows) ==
    IF rows = {} THEN 0
    ELSE LET x == CHOOSE y \in rows : TRUE
         IN  table[x] + Copies(table, rows \ {x})

OneRowPerRecipeIngredient ==
    \A x \in Rows(RecipeIngredient) :
        Copies(RecipeIngredient,
               { y \in Rows(RecipeIngredient) :
                   y.recipe = x.recipe /\ y.ingredient = x.ingredient }) = 1

OneRowPerRecipeTag == \A x \in Rows(RecipeTags) : RecipeTags[x] = 1

\* C9: a create or update request that lists the same tag twice or the same
\* ingredient twice is rejected with a validation error, and there is at
\* most one RecipeIngredient row per (recipe, ingredient) and one RecipeTags
\* row per (recipe, tag).
C9_DuplicatesRejected ==
    /\ [](OneRowPerRecipeIngredient /\ OneRowPerRecipeTag)
    /\ [][ (Addressed(request')
              /\ (SameTagTwice(request') \/ SameIngredientTwice(request')))
           => (response'.status = 400 /\ RecipeTablesUnchanged) ]_vars

UnknownTag(req) ==
    LET v == req.data.tags.value
    IN  \E i \in 1..Len(v) : v[i].v \notin { row.id : row \in Tag }

UnknownIngredient(req) ==
    LET v == req.data.ingredients.value
    IN  \E i \in 1..Len(v) : v[i].id.v \notin { row.id : row \in Ingredient }

ReferencesExist ==
    /\ \A x \in Rows(RecipeIngredient) :
           x.ingredient \in { row.id : row \in Ingredient }
    /\ \A x \in Rows(RecipeTags) : x.tag \in { row.id : row \in Tag }

Range(s) == { s[i] : i \in DOMAIN s }

CartRecipes(user) ==
    { r \in RecipeIds : Pair(user, r) \in Rows(ShoppingCart) }

\* The list computed by hand from the RecipeIngredient rows of `recipes`,
\* each recipe taken once.
ExpectedEntries(recipes) ==
    LET rows == { x \in Rows(RecipeIngredient) : x.recipe \in recipes }
    IN  { [name |-> k.name, unit |-> k.unit,
           total_amount |->
               SumOver(RecipeIngredient, { x \in rows : GroupKey(x) = k })] :
            k \in { GroupKey(x) : x \in rows } }

ListRequest ==
    /\ request.op \in {"download_shopping_cart", "generate_shopping_list"}
    /\ request.user \in User

\* C1: the shopping list of a user has exactly one entry per distinct
\* (ingredient name, measurement unit) among the RecipeIngredient rows of the
\* recipes in the user's cart, its total is the sum of the amounts of those
\* rows with each cart recipe counted once, and an empty cart gives an empty
\* list in a successful response.
C1_ShoppingListTotals ==
    ListRequest =>
        /\ response.status = 200
        /\ Range(response.body) = ExpectedEntries(CartRecipes(request.user))
        /\ Len(response.body) =
               Cardinality(ExpectedEntries(CartRecipes(request.user)))
        /\ \A i, j \in DOMAIN response.body :
               (/\ response.body[i].name = response.body[j].name
                /\ response.body[i].unit = response.body[j].unit) => i = j
        /\ CartRecipes(request.user) = {} => response.body = <<>>

\* A downloaded list of two entries, one of them summed over two cart recipes
\* that share an ingredient.
C1_Witness ==
    /\ request.op = "download_shopping_cart"
    /\ response.status = 200
    /\ CartRecipes(request.user) = {1, 2}
    /\ Len(response.body) = 2
    /\ \E x, y \in Rows(RecipeIngredient) :
           x.recipe = 1 /\ y.recipe = 2 /\ x.ingredient = y.ingredient

\* C2: every shopping list, whether produced by download_shopping_cart or by
\* generate_shopping_list, is sorted ascending by ingredient name.
C2_SortedByName ==
    (ListRequest /\ response.status = 200) =>
        \A i, j \in DOMAIN response.body :
            i < j => response.body[i].name <= response.body[j].name

(***************************************************************************)
(* Claims about favorites, carts and subscriptions.                         *)
(***************************************************************************)
OneRowPerPair(table) == \A x \in Rows(table) : table[x] <= 1

\* The step answers a request (it is not the first half of a handler).
Answers == \A c \in Clients : pending[c] = Idle => pending'[c] = Idle

DuplicatePostRejected ==
    /\ (/\ request'.op = "favorite_post"
        /\ Pair(request'.user, request'.target) \in Rows(Favorite))
           => response'.status = 400 /\ UNCHANGED Favorite
    /\ (/\ request'.op = "shopping_cart_post"
        /\ Pair(request'.user, request'.target) \in Rows(ShoppingCart))
           => response'.status = 400 /\ UNCHANGED ShoppingCart
    /\ (/\ request'.op = "subscribe_post"
        /\ Follow(request'.user, request'.target) \in Rows(Subscription))
           => response'.status = 400 /\ UNCHANGED Subscription

\* C5: in every reachable state Favorite and ShoppingCart hold at most one
\* row per (user, recipe) and Subscription at most one row per (user,
\* author), and a POST for a pair that already has a row is answered with an
\* error and leaves the table unchanged.
C5_OneRowPerPair ==
    /\ OneRowPerPair(Favorite)
    /\ OneRowPerPair(ShoppingCart)
    /\ OneRowPerPair(Subscription)
    /\ [][/\ OneRowPerPair(Favorite')
          /\ OneRowPerPair(ShoppingCart')
          /\ OneRowPerPair(Subscription')
          /\ Answers => DuplicatePostRejected]_vars

\* C6: whatever the interleaving of concurrent POST requests for the same
\* pair, at most one row for the pair is stored in Favorite, ShoppingCart and
\* Subscription.
C6_ConcurrentPostsOneRow ==
    \A table \in {Favorite, ShoppingCart, Subscription} :
        \A x \in Rows(table) : CopiesIn(x, table) < 2

NoSelfSubscription == \A x \in Rows(Subscription) : x.user # x.author

\* C7: a request of a user to subscribe to themselves is rejected with a
\* validation error and no reachable state holds a Subscription row whose
\* user is its author.
C7_NoSelfSubscription ==
    /\ NoSelfSubscription
    /\ [][/\ NoSelfSubscription'
          /\ (/\ request'.op = "subscribe_post"
              /\ request'.user \in User
              /\ request'.target = request'.user)
                 => response'.status = 400 /\ UNCHANGED Subscription]_vars

(***************************************************************************)
(* Claims about deleting a recipe (Spec).                                   *)
(***************************************************************************)
References(recipe) ==
    { x \in Rows(RecipeIngredient) \cup Rows(RecipeTags) \cup Rows(Favorite)
            \cup Rows(ShoppingCart) : x.recipe = recipe }

NoOrphans ==
    \A x \in Rows(RecipeIngredient) \cup Rows(RecipeTags) \cup Rows(Favorite)
            \cup Rows(ShoppingCart) : x.recipe \in RecipeIds

Destroyed == request'.op = "destroy" /\ response'.status = 204

\* C8: deleting a recipe removes the recipe and every Favorite, ShoppingCart,
\* RecipeIngredient and RecipeTags row that references it, no row ever
\* references a missing recipe, and after the deletion the shopping list of
\* every user is the list of the other recipes in the user's cart.
C8_DeleteCascades ==
    /\ NoOrphans
    /\ [][/\ NoOrphans'
          /\ \A r \in Targets :
                 (Destroyed /\ request'.target = r) =>
                     /\ r \notin RecipeIds'
                     /\ References(r)' = {}
                     /\ \A u \in User :
                            annotate_total_amount(u)' =
                                ExpectedEntries(CartRecipes(u) \ {r})]_vars

\* Recipe 2 has been deleted while recipe 1 stays in a cart and in a list of
\* favorites.
C8_Witness ==
    /\ request.op = "destroy"
    /\ response.status = 204
    /\ RecipeIds = {1}
    /\ Rows(ShoppingCart) # {}
    /\ Rows(Favorite) # {}

(***************************************************************************)
(* Claims about the fields of a recipe (SpecFields).                        *)
(***************************************************************************)
Items(req) == req.data.ingredients.value

AmountsWithinBounds ==
    \A x \in Rows(RecipeIngredient) :
        MIN_AMOUNT <= x.amount /\ x.amount <= MAX_AMOUNT

\* Every item is a pair of numbers and some amount is out of range.
AmountOutOfBounds(req) ==
    /\ \A i \in DOMAIN Items(req) :
           IsNumber(Items(req)[i].id) /\ IsNumber(Items(req)[i].amount)
    /\ \E i \in DOMAIN Items(req) :
           \/ PyInt(Items(req)[i].amount) < MIN_AMOUNT
           \/ PyInt(Items(req)[i].amount) > MAX_AMOUNT

\* C11: every RecipeIngredient row of every reachable state has
\* MIN_AMOUNT <= amount <= MAX_AMOUNT, and a create or update request with
\* an amount outside this range is rejected with a validation error.
C11_AmountWithinBounds ==
    /\ AmountsWithinBounds
    /\ [][/\ AmountsWithinBounds'
          /\ (Addressed(request') /\ AmountOutOfBounds(request'))
                 => (response'.status = 400
                     /\ response'.errors.ingredients # "")]_vars

\* An item with a missing key, a value that is not a number, or amount 0.
Malformed(item) ==
    \/ item.id \in {None, Text}
    \/ item.amount \in {None, Text, IntVal(0)}

\* C12: a create or update request with a malformed ingredient item (a
\* missing `id` or `amount`, an `id` or `amount` that is not an integer, an
\* amount of 0) is answered 400 with an error keyed by `ingredients`, never
\* with an unhandled exception.
C12_StructuredErrors ==
    [][(/\ Addressed(request')
        /\ \E i \in DOMAIN Items(request') : Malformed(Items(request')[i]))
           => (response'.status = 400
               /\ response'.errors.ingredients # "")]_vars

UniqueNamePerAuthor ==
    \A r1, r2 \in Recipe :
        (r1.name = r2.name /\ r1.author = r2.author) => r1 = r2

\* C18: in every reachable state no two Recipe rows have the same
\* (name, author) pair.
C18_UniqueNamePerAuthor ==
    UniqueNamePerAuthor /\ [][UniqueNamePerAuthor']_vars

CookingTimesWithinBounds ==
    \A r \in Recipe :
        MIN_COOK_TIME <= r.cooking_time /\ r.cooking_time <= MAX_COOK_TIME

\* C19: every Recipe row has MIN_COOK_TIME <= cooking_time <= MAX_COOK_TIME,
\* and a create or update request (complete in its other fields) with a
\* cooking_time outside this range is rejected with a validation error on
\* that field.
C19_CookingTimeWithinBounds ==
    /\ CookingTimesWithinBounds
    /\ [][/\ CookingTimesWithinBounds'
          /\ (/\ Addressed(request')
              /\ request'.data.name.present
              /\ request'.data.cooking_time.present
              /\ \/ request'.data.cooking_time.value < MIN_COOK_TIME
                 \/ request'.data.cooking_time.value > MAX_COOK_TIME)
                 => (response'.status = 400
                     /\ response'.errors.cooking_time # "")]_vars

(***************************************************************************)
(* Claims about updating a recipe (SpecUpdate).                             *)
(***************************************************************************)
SuppliedIngredients(req) ==
    { [recipe |-> req.target,
       ingredient |-> PyInt(Items(req)[i].id),
       amount |-> PyInt(Items(req)[i].amount)] : i \in DOMAIN Items(req) }

SuppliedTags(req) ==
    { [recipe |-> req.target, tag |-> PyInt(req.data.tags.value[i])] :
          i \in DOMAIN req.data.tags.value }

\* The rows of `table` that belong to `recipe`, each stored once.
RowsOf(table, recipe) == { x \in Rows(table) : x.recipe = recipe }
StoredOnce(table, recipe) == \A x \in RowsOf(table, recipe) : table[x] = 1

OthersUntouched(old, new, recipe) ==
    \A x \in Rows(old) \cup Rows(new) :
        x.recipe # recipe => CopiesIn(x, new) = CopiesIn(x, old)

\* C13: after a successful update that supplies ingredients and tags, the
\* RecipeIngredient rows of the recipe are exactly the supplied
\* (ingredient, amount) items and its RecipeTags rows exactly the supplied
\* tags, each once, and the rows of other recipes are as before.
C13_UpdateReplaces ==
    [][(/\ request'.op \in {"update", "partial_update"}
        /\ response'.status = 200
        /\ request'.data.ingredients.present
        /\ request'.data.tags.present)
           => /\ RowsOf(RecipeIngredient', request'.target)
                     = SuppliedIngredients(request')
              /\ Cardinality(SuppliedIngredients(request'))
                     = Len(Items(request'))
              /\ StoredOnce(RecipeIngredient', request'.target)
              /\ RowsOf(RecipeTags', request'.target) = SuppliedTags(request')
              /\ StoredOnce(RecipeTags', request'.target)
              /\ OthersUntouched(RecipeIngredient, RecipeIngredient',
                                 request'.target)
              /\ OthersUntouched(RecipeTags, RecipeTags',
                                 request'.target)]_vars

\* Recipe 1 (ingredient 1, tag 1) now holds ingredient 2 and tag 2 only, and
\* recipe 2 still has its rows.
C13_Witness ==
    /\ request.op = "update"
    /\ request.target = 1
    /\ response.status = 200
    /\ RowsOf(RecipeIngredient, 1)
           = {[recipe |-> 1, ingredient |-> 2, amount |-> 1]}
    /\ RowsOf(RecipeTags, 1) = {[recipe |-> 1, tag |-> 2]}
    /\ Cardinality(RowsOf(RecipeIngredient, 2)) = 2


(***************************************************************************)
(* One request of any kind, by anyone, on a database of two recipes with   *)
(* any favorites, carts and subscriptions of the two users.                *)
(***************************************************************************)
UserRecipePairs == { Pair(u, r) : u \in User, r \in {1, 2} }

Follows == { Follow(u, a) : u, a \in User } \ { Follow(u, u) : u \in User }

ApiDatabases ==
    { [TwoRecipes EXCEPT !.Favorite = SetToBag(favorites),
                         !.ShoppingCart = SetToBag(carts),
                         !.Subscription = SetToBag(follows)] :
          favorites \in SUBSET UserRecipePairs,
          carts \in SUBSET UserRecipePairs,
          follows \in SUBSET Follows }

\* No body, a valid body, a body without ingredients.
ApiData ==
    { NoData,
      Data(Field(OneItem), Field(OneTag), Scalar(2), Scalar(30)),
      Data(Field(<<>>), Field(OneTag), Scalar(2), Scalar(30)) }

ApiRequests(ops) ==
    { Request(op, u, t, d) :
          op \in ops, u \in User \cup {Anonymous}, t \in Targets,
          d \in IF ops \subseteq {"create", "update", "partial_update"}
                    THEN ApiData ELSE {NoData} }

InitApi ==
    /\ \E db \in ApiDatabases : Load(db)
    /\ request = NoRequest
    /\ response = NoResponse

NextApi ==
    \/ /\ request = NoRequest
       /\ \E req \in ApiRequests({"create"}) : CreateRecipe(req)
    \/ /\ request = NoRequest
       /\ \E req \in ApiRequests({"update", "partial_update"}) :
              UpdateRecipe(req)
    \/ /\ request = NoRequest
       /\ \E req \in ApiRequests({"destroy"}) : DestroyRecipe(req)
    \/ /\ request = NoRequest
       /\ \E req \in ApiRequests({"favorite_post", "favorite_delete"}) :
              favorite(req)
    \/ /\ request = NoRequest
       /\ \E req \in ApiRequests({"shopping_cart_post",
                                  "shopping_cart_delete"}) :
              shopping_cart(req)
    \/ /\ request = NoRequest
       /\ \E req \in ApiRequests({"subscribe_post", "subscribe_delete"}) :
              subscribe(req)
    \/ /\ request = NoRequest
       /\ \E req \in ApiRequests({"download_shopping_cart"}) :
              download_shopping_cart(req)

SpecApi == InitApi /\ [][NextApi]_vars

(***************************************************************************)
(* Shopping list export: foodgram/api/views.py ShoppingCartViewSet and     *)
(* foodgram/api/utils.py, next to RecipeViewSet.download_shopping_cart.    *)
(***************************************************************************)
\* generate_shopping_list(user): {'ingredients': [{name, unit, amount}],
\* 'total': count}
shopping_list_content(ingredients) ==
    [ingredients |->
         [i \in DOMAIN ingredients |->
              [name |-> ingredients[i].name, unit |-> ingredients[i].unit,
               amount |-> ingredients[i].total_amount]],
     total |-> Len(ingredients)]

\* generate_pdf_response(content, user): one table row per item of
\* content['ingredients'].
generate_pdf_response(content, user) ==
    HttpResponse(content.ingredients, "application/pdf",
                 "foodgram_shopping_list.pdf")

\* generate_csv_response(content): content.split('\n') on the dict that
\* generate_shopping_list returns raises AttributeError.
generate_csv_response(content) ==
    Response(500, Detail("AttributeError"), <<>>)

\* generate_txt_response(content): HttpResponse(content) joins the chunks of
\* iterating content, which for a dict are its keys.
generate_txt_response(content) ==
    HttpResponse(<<[key |-> "ingredients"], [key |-> "total"]>>,
                 "text/plain", "shopping_list.txt")

\* GET /api/shopping_cart/download_shopping_cart/
ShoppingCartViewSet_download_shopping_cart(req) ==
    /\ req.op = "shopping_cart_download"
    /\ UNCHANGED <<Recipe, RecipeIngredient, RecipeTags, Favorite,
                   ShoppingCart, Subscription, next_recipe_id, pending>>
    /\ IF ~IsAuthenticated(req.user)
           THEN Answer(req, Response(401, Detail("not_authenticated"), <<>>))
       ELSE \E ingredients \in Orders(annotate_total_amount(req.user)) :
                LET format == query_params_get(req, "txt")
                    content == shopping_list_content(ingredients)
                IN  Answer(req,
                           IF format = "pdf"
                               THEN generate_pdf_response(content, req.user)
                           ELSE IF format = "csv"
                               THEN generate_csv_response(content)
                           ELSE generate_txt_response(content))

Formats == {"pdf", "csv", "txt", "xml"}

ExportRequests(op) ==
    { [Request(op, u, 0, NoData) EXCEPT !.query_params.format = f] :
          u \in User \cup {Anonymous},
          f \in {NoParam} \cup { Param(v) : v \in Formats } }

\* Two recipes and any carts of the two users.
InitExport ==
    /\ \E carts \in SUBSET UserRecipePairs :
           Load([TwoRecipes EXCEPT !.ShoppingCart = SetToBag(carts)])
    /\ request = NoRequest
    /\ response = NoResponse

NextExport ==
    \/ /\ request = NoRequest
       /\ \E req \in ExportRequests("download_shopping_cart") :
              download_shopping_cart(req)
    \/ /\ request = NoRequest
       /\ \E req \in ExportRequests("shopping_cart_download") :
              ShoppingCartViewSet_download_shopping_cart(req)

SpecExport == InitExport /\ [][NextExport]_vars

(***************************************************************************)
(* Favorite and shopping cart round trip.                                  *)
(***************************************************************************)
Requested == [user |-> request'.user, recipe |-> request'.target]

\* One request on a relation table: old and new are the table before and
\* after it.
AddThenRemove(old, new, post, delete) ==
    (request'.user \in User /\ request'.target \in RecipeIds) =>
        /\ (request'.op = post /\ Requested \notin Rows(old)) =>
               /\ response'.status = 201
               /\ new = old (+) SetToBag({Requested})
        /\ (request'.op = delete /\ Requested \in Rows(old)) =>
               /\ response'.status = 204
               /\ Requested \notin Rows(new)
               /\ new (+) SetToBag({Requested}) = old

\* C14: for a user and an existing recipe with no row in the list, POST
\* answers 201 and adds exactly that row; DELETE of a row that is there
\* answers 204 and removes exactly that row, so that a POST followed by a
\* DELETE leaves the table as it was before the POST. This holds for the
\* favorites and for the shopping cart.
C14_AddThenRemove ==
    [][ /\ AddThenRemove(Favorite, Favorite', "favorite_post",
                         "favorite_delete")
        /\ AddThenRemove(ShoppingCart, ShoppingCart', "shopping_cart_post",
                         "shopping_cart_delete") ]_vars

\* User 1 took recipe 1 out of the favorites, 204, while the row of user 2
\* for the same recipe is still there.
C14_Witness ==
    /\ request.op = "favorite_delete"
    /\ request.user = 1
    /\ request.target = 1
    /\ response.status = 204
    /\ Favorite = SetToBag({[user |-> 2, recipe |-> 1]})


(***************************************************************************)
(* Subscribe and unsubscribe round trip.                                   *)
(***************************************************************************)
Subscribed == [user |-> request'.user, author |-> request'.target]

ReversePair == [user |-> request'.target, author |-> request'.user]

\* C15: for distinct users u and a, a subscribe POST by u on a with no row
\* (u, a) answers 201 and adds exactly that row; the DELETE of a row (u, a)
\* that is there answers 204 and removes exactly that row, so that POST
\* followed by DELETE restores the table; no subscribe request of u on a
\* creates or removes the reverse row (a, u).
C15_SubscribeRoundTrip ==
    [][ ( /\ request'.op \in {"subscribe_post", "subscribe_delete"}
          /\ request'.user \in User
          /\ request'.target \in User
          /\ request'.user # request'.target ) =>
            /\ (request'.op = "subscribe_post"
                    /\ Subscribed \notin Rows(Subscription)) =>
                   /\ response'.status = 201
                   /\ Subscription' = Subscription (+) SetToBag({Subscribed})
            /\ (request'.op = "subscribe_delete"
                    /\ Subscribed \in Rows(Subscription)) =>
                   /\ response'.status = 204
                   /\ Subscribed \notin Rows(Subscription')
                   /\ Subscription' (+) SetToBag({Subscribed}) = Subscription
            /\ CopiesIn(ReversePair, Subscription')
                   = CopiesIn(ReversePair, Subscription) ]_vars

\* User 1 unsubscribed from user 2, 204, and the subscription of user 2 to
\* user 1 is still there.
C15_Witness ==
    /\ request.op = "subscribe_delete"
    /\ request.user = 1
    /\ request.target = 2
    /\ response.status = 204
    /\ Subscription = SetToBag({[user |-> 2, author |-> 1]})


(***************************************************************************)
(* Missing targets and anonymous requests.                                 *)
(***************************************************************************)
\* The request just answered names a recipe or a user that does not exist.
MissingTarget ==
    \/ /\ request'.op \in {"favorite_post", "favorite_delete",
                           "shopping_cart_post", "shopping_cart_delete"}
       /\ request'.target \notin RecipeIds
    \/ /\ request'.op \in {"subscribe_post", "subscribe_delete"}
       /\ request'.target \notin User

\* C16: a favorite, shopping_cart or subscribe request (POST or DELETE) of
\* an authenticated user whose target recipe or user does not exist is
\* answered 404 and changes no table.
C16_MissingTargetIs404 ==
    [][ (request'.user \in User /\ MissingTarget) =>
            /\ response'.status = 404
            /\ UNCHANGED tables ]_vars

\* C17: a request without credentials that would write (POST, PUT, PATCH,
\* DELETE on recipes, favorite, shopping_cart, subscribe) or that asks for
\* the shopping list is answered 401 or 403, carries no list, and leaves
\* every table and the id sequence unchanged.
C17_AnonymousRejected ==
    [][ (request'.op # "none" /\ request'.user = Anonymous) =>
            /\ response'.status \in {401, 403}
            /\ response'.body = <<>>
            /\ UNCHANGED <<tables, next_recipe_id>> ]_vars

\* An anonymous download was refused although user 1 has recipe 1 in the
\* cart.
C17_Witness ==
    /\ request.op = "download_shopping_cart"
    /\ request.user = Anonymous
    /\ response.status = 401
    /\ response.body = <<>>
    /\ Pair(1, 1) \in Rows(ShoppingCart)
    /\ Recipe = TwoRecipes.Recipe


(***************************************************************************)
(* Export formats.                                                         *)
(***************************************************************************)
\* The content type the format parameter asks for.
Rendering(req) ==
    LET format == IF req.query_params.format.present
                      THEN req.query_params.format.value
                  ELSE "txt"
    IN  IF format = "pdf" THEN "application/pdf"
        ELSE IF format = "csv" THEN "text/csv"
        ELSE "text/plain"

\* The rows of the body are the entries of the aggregated list of the user,
\* each once.
SameList(body, user) ==
    /\ \A i \in DOMAIN body :
           DOMAIN body[i] \in {{"name", "unit", "amount"},
                               {"name", "unit", "total_amount"}}
    /\ Len(body) = Cardinality(annotate_total_amount(user))
    /\ { <<r.name, r.unit,
           IF "amount" \in DOMAIN r THEN r.amount ELSE r.total_amount>> :
             r \in Range(body) }
           = { <<e.name, e.unit, e.total_amount>> :
                 e \in annotate_total_amount(user) }

\* C20: every export request of an authenticated user is answered 200 in
\* the rendering its format parameter names (pdf, csv, and plain text for
\* txt, a missing or an unknown value), and the rows of the response are
\* the aggregated list of the user.
C20_ExportHonoursFormat ==
    [][ ( /\ request'.op \in {"download_shopping_cart",
                              "shopping_cart_download"}
          /\ request'.user \in User ) =>
            /\ response'.status = 200
            /\ response'.content_type = Rendering(request')
            /\ SameList(response'.body, request'.user) ]_vars


(***************************************************************************)
(* Recipe list: api/views.py RecipeFilter.filter_queryset.  A queryset is  *)
(* the number of times the query returns each recipe, and whether SELECT   *)
(* DISTINCT is set on it.                                                  *)
(***************************************************************************)
\* RecipeViewSet.get_queryset(): Recipe.objects.annotate(...)
get_queryset == [count |-> [r \in RecipeIds |-> 1], distinct |-> FALSE]

\* queryset.filter(author_id=author_id)
filter_author_id(queryset, author_id) ==
    [queryset EXCEPT !.count =
         [r \in RecipeIds |->
              IF \E x \in Recipe : x.id = r /\ x.author = author_id
                  THEN queryset.count[r]
              ELSE 0]]

\* The slug of a tag id.
SlugOf(tag) == (CHOOSE t \in Tag : t.id = tag).slug

\* queryset.filter(tags__slug__in=tags): the join with the tags of the
\* recipe returns a recipe once per matching tag.
filter_tags_slug_in(queryset, tags) ==
    [queryset EXCEPT !.count =
         [r \in RecipeIds |->
              queryset.count[r]
                  * BagCardinality(
                        [x \in { y \in Rows(RecipeTags) :
                                   /\ y.recipe = r
                                   /\ SlugOf(y.tag) \in Range(tags) }
                             |-> RecipeTags[x]])]]

\* A queryset left as it is.
not_distinct(queryset) == queryset

\* .distinct()
distinct(queryset) == [queryset EXCEPT !.distinct = TRUE]

\* queryset.filter(favorites__user=user) and
\* queryset.filter(shopping_carts__user=user): the join with the table.
filter_relation_user(queryset, table, user) ==
    [queryset EXCEPT !.count =
         [r \in RecipeIds |->
              queryset.count[r] * CopiesIn(Pair(user, r), table)]]

\* RecipeFilter.filter_queryset(request, queryset, view)
filter_queryset(req, queryset) ==
    LET params == req.query_params
        by_author == IF params.author.present
                         THEN filter_author_id(queryset, params.author.value)
                     ELSE queryset
        by_tags == IF params.tags # <<>>
                       THEN distinct(filter_tags_slug_in(by_author,
                                                         params.tags))
                   ELSE by_author
        by_favorited ==
            IF params.is_favorited.present /\ req.user # Anonymous
                   /\ params.is_favorited.value = "1"
                THEN filter_relation_user(by_tags, Favorite, req.user)
            ELSE by_tags
    IN  IF params.is_in_shopping_cart.present /\ req.user # Anonymous
               /\ params.is_in_shopping_cart.value = "1"
            THEN filter_relation_user(by_favorited, ShoppingCart, req.user)
        ELSE by_favorited

\* The rows the database returns: under SELECT DISTINCT each recipe once.
Returned(queryset, r) ==
    IF queryset.distinct /\ queryset.count[r] > 0 THEN 1
    ELSE queryset.count[r]

\* Recipe.Meta.ordering = ['-id']: the results, highest id first.
RECURSIVE results(_, _)
results(queryset, ids) ==
    IF ids = {} THEN <<>>
    ELSE LET r == CHOOSE x \in ids : \A y \in ids : y <= x
         IN  [i \in 1..Returned(queryset, r) |-> r]
                 \o results(queryset, ids \ {r})

\* GET /api/recipes/
list_recipes(req) ==
    /\ req.op = "list"
    /\ IsAuthenticatedOrReadOnly(req.user, "GET")
    /\ UNCHANGED <<Recipe, RecipeIngredient, RecipeTags, Favorite,
                   ShoppingCart, Subscription, next_recipe_id, pending>>
    /\ Answer(req, Response(200, NoErrors,
                            results(filter_queryset(req, get_queryset),
                                    RecipeIds)))


\* Tags of the two recipes: each has its own tag, and may have the other.
FilterTags ==
    { {[recipe |-> 1, tag |-> 1], [recipe |-> 2, tag |-> 2]} \cup more :
          more \in SUBSET {[recipe |-> 1, tag |-> 2],
                           [recipe |-> 2, tag |-> 1]} }

FilterDatabases ==
    { [TwoRecipes EXCEPT !.RecipeTags = SetToBag(tags),
                         !.Favorite = SetToBag(favorites),
                         !.ShoppingCart = SetToBag(carts)] :
          tags \in FilterTags,
          favorites \in SUBSET UserRecipePairs,
          carts \in {{}, {Pair(1, 1)}, {Pair(2, 2)},
                     {Pair(1, 1), Pair(1, 2)}} }

\* ?author=, ?tags= (repeated), ?is_favorited=, ?is_in_shopping_cart=
FilterParams ==
    { [NoParams EXCEPT !.author = a, !.tags = t, !.is_favorited = f,
                       !.is_in_shopping_cart = c] :
          a \in {NoParam} \cup { Param(u) : u \in Targets },
          t \in {<<>>, <<"breakfast">>, <<"dessert">>,
                 <<"breakfast", "dessert">>, <<"lunch">>},
          f \in {NoParam, Param("1"), Param("0")},
          c \in {NoParam, Param("1"), Param("0")} }

InitFilter ==
    /\ \E db \in FilterDatabases : Load(db)
    /\ request = NoRequest
    /\ response = NoResponse

NextFilter ==
    /\ request = NoRequest
    /\ \E u \in User \cup {Anonymous}, params \in FilterParams :
           list_recipes([Request("list", u, 0, NoData)
                             EXCEPT !.query_params = params])

SpecFilter == InitFilter /\ [][NextFilter]_vars

\* The recipe satisfies every filter the request supplies.
Satisfies(r, req) ==
    LET params == req.query_params
    IN  /\ params.author.present => r.author = params.author.value
        /\ params.tags # <<>> =>
               \E x \in Rows(RecipeTags) :
                   x.recipe = r.id /\ SlugOf(x.tag) \in Range(params.tags)
        /\ (params.is_favorited = Param("1") /\ req.user \in User) =>
               Pair(req.user, r.id) \in Rows(Favorite)
        /\ (params.is_in_shopping_cart = Param("1") /\ req.user \in User) =>
               Pair(req.user, r.id) \in Rows(ShoppingCart)

\* C21: the recipe list holds exactly the recipes that satisfy every
\* supplied filter (author, any of the tag slugs, is_favorited=1 and
\* is_in_shopping_cart=1 for the authenticated requester; the last two do
\* not restrict an anonymous request), each recipe once.
C21_FilterExact ==
    [][ request'.op = "list" =>
            LET matching == { r.id : r \in { x \in Recipe :
                                               Satisfies(x, request') } }
            IN  /\ response'.status = 200
                /\ Range(response'.body) = matching
                /\ Len(response'.body) = Cardinality(matching) ]_vars

\* User 1 asked for both slugs and the own favorites; recipe 1 carries both
\* tags and is listed once, recipe 2 matches a slug but is no favorite.
C21_Witness ==
    /\ request.op = "list"
    /\ request.user = 1
    /\ request.query_params.tags = <<"breakfast", "dessert">>
    /\ request.query_params.is_favorited = Param("1")
    /\ [recipe |-> 1, tag |-> 2] \in Rows(RecipeTags)
    /\ Pair(1, 2) \notin Rows(Favorite)
    /\ response.body = <<1>>


(***************************************************************************)
(* Authorship.                                                             *)
(***************************************************************************)
\* The request just answered targets a recipe of somebody else.
ForeignRecipe ==
    /\ request'.user \in User
    /\ \E r \in Recipe : r.id = request'.target /\ r.author # request'.user

\* C22: a PUT, PATCH or DELETE on a recipe by an authenticated user who is
\* not its author (no user of the model is a superuser) is rejected, and
\* the recipe, its ingredients and its tags stay as they were.
C22_OnlyAuthorChanges ==
    [][ ( /\ request'.op \in {"update", "partial_update", "destroy"}
          /\ ForeignRecipe ) =>
            /\ response'.status >= 400
            /\ UNCHANGED <<Recipe, RecipeIngredient, RecipeTags>> ]_vars


\* C23: after a successful PUT or PATCH of a recipe its author is the user
\* who sent the request, and a successful create stores the new recipe with
\* the creating user as its author.
C23_AuthorIsRequester ==
    [][ /\ ( /\ request'.op \in {"update", "partial_update"}
             /\ response'.status = 200 ) =>
               \E r \in Recipe' :
                   r.id = request'.target /\ r.author = request'.user
        /\ ( request'.op = "create" /\ response'.status = 201 ) =>
               \E r \in Recipe' \ Recipe :
                   /\ r.id = next_recipe_id
                   /\ r.author = request'.user
                   /\ Recipe' = Recipe \cup {r} ]_vars

\* User 1 updated recipe 2 of user 2 and is its author now.
C23_Witness ==
    /\ request.op = "partial_update"
    /\ request.user = 1
    /\ request.target = 2
    /\ response.status = 200
    /\ \E r \in Recipe : r.id = 2 /\ r.author = 1


(***************************************************************************)
(* Removing what is not there.                                             *)
(***************************************************************************)
\* The request just answered asks to remove a row that `table` lacks.
RemovesAbsent(table, delete) ==
    /\ request'.op = delete
    /\ request'.user \in User
    /\ Pair(request'.user, request'.target) \notin Rows(table)

\* C24: a DELETE favorite or DELETE shopping_cart of an authenticated user
\* for a (user, recipe) pair without a row is answered 400 with an error
\* body, never 204, and leaves the Favorite and ShoppingCart tables
\* unchanged.
C24_AbsentDeleteIs400 ==
    [][ ( \/ RemovesAbsent(Favorite, "favorite_delete")
          \/ RemovesAbsent(ShoppingCart, "shopping_cart_delete") ) =>
            /\ response'.status = 400
            /\ response'.errors.detail # ""
            /\ UNCHANGED <<Favorite, ShoppingCart>> ]_vars

\* User 1 asked to take recipe 2 out of the cart, which holds only recipe 1
\* for user 1 and recipe 2 for user 2: 400, and both rows are still there.
C24_Witness ==
    /\ request.op = "shopping_cart_delete"
    /\ request.user = 1
    /\ request.target = 2
    /\ response.status = 400
    /\ Rows(ShoppingCart) = {Pair(1, 1), Pair(2, 2)}


(***************************************************************************)
(* Complete recipes.                                                       *)
(***************************************************************************)
EveryRecipeComplete ==
    \A r \in Recipe :
        /\ RowsOf(RecipeIngredient, r.id) # {}
        /\ RowsOf(RecipeTags, r.id) # {}

\* A PATCH without `ingredients` keeps the RecipeIngredient table, one
\* without `tags` keeps the RecipeTags table.
PatchKeepsOmitted ==
    request'.op = "partial_update" =>
        /\ ~request'.data.ingredients.present =>
               RecipeIngredient' = RecipeIngredient
        /\ ~request'.data.tags.present => RecipeTags' = RecipeTags

\* C25: in every state reached through create, update and partial_update
\* each Recipe row has at least one RecipeIngredient row and at least one
\* tag, and a PATCH that omits `ingredients` or `tags` leaves the omitted
\* relation as it was.
C25_RecipesComplete ==
    /\ EveryRecipeComplete
    /\ [][EveryRecipeComplete' /\ PatchKeepsOmitted]_vars


(***************************************************************************)
(* Lists of different users.                                               *)
(***************************************************************************)
\* The rows of a table that belong to other users than `user`.
RowsOfOthers(table, user) ==
    [x \in { y \in Rows(table) : y.user # user } |-> table[x]]

\* C26: a favorite, shopping_cart or subscribe request of user u leaves
\* every Favorite, ShoppingCart and Subscription row of another user as it
\* was, a favorite request leaves the ShoppingCart table unchanged and a
\* shopping_cart request the Favorite table, and the shopping list of every
\* other user v is the same before and after the request.
C26_OtherUsersUntouched ==
    [][ ( /\ request'.op \in RelationOps \cup {"subscribe_post",
                                               "subscribe_delete"}
          /\ request'.user \in User ) =>
            /\ RowsOfOthers(Favorite', request'.user)
                   = RowsOfOthers(Favorite, request'.user)
            /\ RowsOfOthers(ShoppingCart', request'.user)
                   = RowsOfOthers(ShoppingCart, request'.user)
            /\ RowsOfOthers(Subscription', request'.user)
                   = RowsOfOthers(Subscription, request'.user)
            /\ OnFavorite(request'.op) => ShoppingCart' = ShoppingCart
            /\ request'.op \in {"shopping_cart_post", "shopping_cart_delete"}
                   => Favorite' = Favorite
            /\ \A v \in User \ {request'.user} :
                   annotate_total_amount(v)' = annotate_total_amount(v) ]_vars

\* User 1 took recipe 1 out of the cart while user 2 keeps it in the cart
\* and in the favorites.
C26_Witness ==
    /\ request.op = "shopping_cart_delete"
    /\ request.user = 1
    /\ request.target = 1
    /\ response.status = 204
    /\ Pair(1, 1) \notin Rows(ShoppingCart)
    /\ Pair(2, 1) \in Rows(ShoppingCart)
    /\ Pair(2, 1) \in Rows(Favorite)
    /\ annotate_total_amount(2) # {}


(***************************************************************************)
(* The renderers of api/utils.py and of foodgram/api/utils.py applied to  *)
(* one aggregated shopping list.                                           *)
(***************************************************************************)
\* f"{item['name']} ({item['unit']})" and item['amount']: the two cells that
\* a renderer of api/utils.py writes for one item.
cells(item) == [label |-> <<item.name, item.unit>>, amount |-> item.amount]

\* generate_shopping_list_text(content): after the heading one line
\* "- name (unit): amount" per item of content['ingredients'], in order.
generate_shopping_list_text(content) ==
    [i \in DOMAIN content.ingredients |-> cells(content.ingredients[i])]

\* api/utils.py generate_txt_response(content)
utils_generate_txt_response(content) ==
    HttpResponse(generate_shopping_list_text(content), "text/plain",
                 "shopping_list.txt")

\* api/utils.py generate_csv_response(content): after the header row one
\* row [f"{name} ({unit})", amount] per item, in order.
utils_generate_csv_response(content) ==
    HttpResponse([i \in DOMAIN content.ingredients |->
                      cells(content.ingredients[i])],
                 "text/csv", "shopping_list.csv")

\* The footer paragraph of generate_pdf_response:
\* f"Всего ингредиентов: {len(content['ingredients'])}"
pdf_footer(content) == Len(content.ingredients)

RenderOps == {"api.utils", "foodgram.api.utils"}

\* generate_shopping_list(user) of one of the two utils modules and its
\* three renderers applied to the content it returns.
render(req) ==
    /\ req.op \in RenderOps
    /\ req.user \in User
    /\ UNCHANGED <<Recipe, RecipeIngredient, RecipeTags, Favorite,
                   ShoppingCart, Subscription, next_recipe_id, pending>>
    /\ \E ingredients \in Orders(annotate_total_amount(req.user)) :
           LET content == shopping_list_content(ingredients)
               legacy == req.op = "foodgram.api.utils"
           IN  Answer(req,
                      Response(200, NoErrors,
                          [total |-> content.total,
                           footer |-> pdf_footer(content),
                           pdf |-> generate_pdf_response(content, req.user),
                           csv |-> IF legacy
                                       THEN generate_csv_response(content)
                                   ELSE utils_generate_csv_response(content),
                           txt |-> IF legacy
                                       THEN generate_txt_response(content)
                                   ELSE utils_generate_txt_response(content)]))

\* Two recipes with any ingredient rows and any carts of the two users.
InitRender ==
    /\ \E table \in RecipeIngredientTables, carts \in SUBSET UserRecipePairs :
           Load([TwoRecipes EXCEPT !.RecipeIngredient = table,
                                   !.ShoppingCart = SetToBag(carts)])
    /\ request = NoRequest
    /\ response = NoResponse

RenderRequests(op) == { Request(op, u, 0, NoData) : u \in User }

NextRender ==
    \/ /\ request = NoRequest
       /\ \E req \in RenderRequests("api.utils") : render(req)
    \/ /\ request = NoRequest
       /\ \E req \in RenderRequests("foodgram.api.utils") : render(req)

SpecRender == InitRender /\ [][NextRender]_vars

\* The data rows of a rendering: none when the renderer failed.
DataRows(rendering) ==
    IF rendering.status = 200 THEN rendering.body ELSE <<>>

\* Name, unit and amount of one data row, <<>> for a row that carries none.
NameUnitAmount(row) ==
    IF DOMAIN row = {"label", "amount"}
        THEN <<row.label[1], row.label[2], row.amount>>
    ELSE IF DOMAIN row = {"name", "unit", "amount"}
        THEN <<row.name, row.unit, row.amount>>
    ELSE <<>>

RowsCarried(rendering) ==
    [i \in DOMAIN DataRows(rendering) |->
         NameUnitAmount(DataRows(rendering)[i])]

\* C27: the TXT, CSV and PDF renderings of one aggregated shopping list
\* each carry exactly one data row per aggregated entry, in the same order
\* and with the same name, unit and amount, and the PDF footer count and
\* the `total` field both equal the number of aggregated entries.
C27_SameRows ==
    (request.op \in RenderOps /\ response # NoResponse) =>
        LET entries == annotate_total_amount(request.user)
            out == response.body
        IN  /\ Len(RowsCarried(out.pdf)) = Cardinality(entries)
            /\ Range(RowsCarried(out.pdf))
                   = { <<e.name, e.unit, e.total_amount>> : e \in entries }
            /\ RowsCarried(out.csv) = RowsCarried(out.pdf)
            /\ RowsCarried(out.txt) = RowsCarried(out.pdf)
            /\ out.footer = Cardinality(entries)
            /\ out.total = Cardinality(entries)

\* The same statement for the renderers of api/utils.py alone.
C27_SameRowsOfApiUtils ==
    request.op = "api.utils" => C27_SameRows


(***************************************************************************)
(* recipes/management/commands/import_ingredients.py                       *)
(***************************************************************************)
MaxRows == 3

Names == {1, 2}
Units == {"g", "kg"}

\* A row as csv.reader yields it: a list of fields, [] for a blank line.
CsvRows ==
    {<<>>} \cup { <<n>> : n \in Names }
           \cup { <<n, u>> : n \in Names, u \in Units }

CsvFiles(n) == UNION { [1..k -> CsvRows] : k \in 0..n }

\* Ingredient.name unique=True and Meta.constraints unique_ingredient
IntegrityError(table, row) ==
    \E r \in Rows(table) :
        \/ r.name = row.name
        \/ r.name = row.name /\ r.measurement_unit = row.measurement_unit

\* Ingredient.objects.get_or_create(name=..., measurement_unit=...)
get_or_create(table, name, unit) ==
    LET row == [name |-> name, measurement_unit |-> unit]
    IN  IF row \in Rows(table)
            THEN [table |-> table, created |-> FALSE, raised |-> ""]
        ELSE IF IntegrityError(table, row)
            THEN [table |-> table, created |-> FALSE,
                  raised |-> "IntegrityError"]
        ELSE [table |-> Insert(table, row), created |-> TRUE, raised |-> ""]

\* if created: success_count += 1
count_created(created, success_count) ==
    IF created THEN success_count + 1 ELSE success_count

\* for row in reader: rows from the i-th on. row[name_csv] and row[unit_csv]
\* raise IndexError on a row of fewer than two fields, which handle does not
\* catch; an IntegrityError is logged and the loop goes on.
RECURSIVE for_row_in_reader(_, _, _)
for_row_in_reader(run, reader, i) ==
    IF i > Len(reader) THEN run
    ELSE IF Len(reader[i]) < 2 THEN [run EXCEPT !.raised = "IndexError"]
    ELSE LET got == get_or_create(run.table, reader[i][1], reader[i][2])
         IN  IF got.raised = "IntegrityError"
                 THEN for_row_in_reader(
                          [run EXCEPT !.log = Append(@, [level |-> "error",
                                                         row |-> i])],
                          reader, i + 1)
             ELSE for_row_in_reader(
                      [table |-> got.table,
                       success_count |->
                           count_created(got.created, run.success_count),
                       log |-> IF got.created THEN run.log
                               ELSE Append(run.log, [level |-> "debug",
                                                     row |-> i]),
                       raised |-> ""],
                      reader, i + 1)

\* Command.handle: one run of manage.py import_ingredients over the rows of
\* data/ingredients.csv.  The response is what the run leaves behind: exit
\* status, the exception that ended it, the log and, when the last
\* logger.info is reached, the reported count.
handle(req) ==
    /\ req.op = "import_ingredients"
    /\ UNCHANGED <<Recipe, RecipeIngredient, RecipeTags, Favorite,
                   ShoppingCart, Subscription, next_recipe_id, pending>>
    /\ LET run == for_row_in_reader(
                      [table |-> IngredientRows, success_count |-> 0,
                       log |-> <<>>, raised |-> ""],
                      req.data, 1)
       IN  /\ IngredientRows' = run.table
           /\ request' = req
           /\ response' =
                  Response(IF run.raised = "" THEN 0 ELSE 1,
                           Detail(run.raised),
                           [log |-> run.log,
                            reported |-> run.raised = "",
                            success_count |-> run.success_count])

\* An empty database.
InitImport ==
    /\ Recipe = {}
    /\ RecipeIngredient = EmptyBag
    /\ RecipeTags = EmptyBag
    /\ Favorite = EmptyBag
    /\ ShoppingCart = EmptyBag
    /\ Subscription = EmptyBag
    /\ next_recipe_id = 1
    /\ pending = [c \in Clients |-> Idle]
    /\ IngredientRows = EmptyBag
    /\ request = NoRequest
    /\ response = NoResponse

\* One run per content of data/ingredients.csv.
ImportRequests ==
    { Request("import_ingredients", Anonymous, 0, csv_file) :
          csv_file \in CsvFiles(MaxRows) }

NextImport == \E req \in ImportRequests : handle(req)

SpecImport == InitImport /\ [][NextImport]_vars

\* No two Ingredient rows have the same (name, measurement_unit) pair.
UniqueIngredients ==
    \A r \in Rows(IngredientRows) : CopiesIn(r, IngredientRows) = 1

\* A run that follows a run over the same file.
SecondRun ==
    /\ request.op = "import_ingredients"
    /\ request'.op = "import_ingredients"
    /\ request'.data = request.data

\* The run was not aborted, its rows that violate a constraint are logged,
\* and the count it reports is the number of rows it created.
RunCompletes ==
    /\ response'.body.reported
    /\ response'.body.success_count
           = BagCardinality(IngredientRows') - BagCardinality(IngredientRows)
    /\ \A i \in DOMAIN request'.data :
           (/\ Len(request'.data[i]) = 2
            /\ \E r \in Rows(IngredientRows') :
                   /\ r.name = request'.data[i][1]
                   /\ r.measurement_unit # request'.data[i][2])
               => [level |-> "error", row |-> i]
                      \in Range(response'.body.log)

ImportStep ==
    /\ UniqueIngredients'
    /\ RunCompletes
    /\ SecondRun => /\ IngredientRows' = IngredientRows
                    /\ response'.body.success_count = 0

\* C28: after any number of import runs over any CSV no two Ingredient rows
\* have the same (name, measurement_unit) pair; a second run over the same
\* file creates no row and reports 0 imported; a row that violates a
\* constraint is logged and skipped without aborting the import of the
\* remaining rows, and the reported count equals the number of rows
\* actually created.
C28_ImportIdempotent ==
    UniqueIngredients /\ [][ImportStep]_vars

\* The same statement for files in which every row has two fields.
C28_ImportOfTwoFieldRows ==
    /\ UniqueIngredients
    /\ [][(\A i \in DOMAIN request'.data : Len(request'.data[i]) = 2)
              => ImportStep]_vars

=============================================================================
